---------------------------- MODULE Spec2Model ----------------------------
(***************************************************************************)
(* State-machine model of fuel_plugin_builder/actions/build.py: the build  *)
(* pipeline BaseBuildPlugin.run() and its three variants BuildPluginV1,    *)
(* BuildPluginV2 and BuildPluginV3.                                        *)
(*                                                                         *)
(* A file name is a sequence of tokens (<<"a", ".rpm">> is a.rpm), a path  *)
(* is a sequence of names relative to the plugin root (plugin_path is the  *)
(* empty path), and the file system is a set of <<path, data>> entries.    *)
(***************************************************************************)
EXTENDS Integers, Sequences, FiniteSets, TLC

\* Number of successive invocations of the builder on the same plugin.
MaxRuns == 2
\* Longest 'releases' list of metadata.yaml.
MaxReleases == 2

---------------------------------------------------------------------------
(* Sequences, names and paths                                              *)

Range(s) == {s[i] : i \in 1..Len(s)}

Last(s) == s[Len(s)]

IsPrefix(p, q) == Len(p) <= Len(q) /\ SubSeq(q, 1, Len(p)) = p

Drop(s, n) == SubSeq(s, n + 1, Len(s))

\* os.path.join of relative components.
join_path(a, b) == a \o b

DIR == <<"dir">>
FILE == <<"file">>
EXE == <<"exe">>

\* Glob matching of one name against one pattern, token by token; the token
\* "*" matches any run of tokens, except that a name starting with "." is
\* matched only by a pattern that starts with ".".
RECURSIVE MatchTokens(_, _)
MatchTokens(pat, name) ==
    IF pat = <<>> THEN name = <<>>
    ELSE IF pat[1] = "*"
         THEN \/ MatchTokens(Tail(pat), name)
              \/ name /= <<>> /\ MatchTokens(pat, Tail(name))
         ELSE name /= <<>> /\ pat[1] = name[1]
              /\ MatchTokens(Tail(pat), Tail(name))

fnmatch(pat, name) ==
    /\ (name /= <<>> /\ name[1] = ".") => (pat /= <<>> /\ pat[1] = ".")
    /\ MatchTokens(pat, name)

\* glob.glob(mask): the paths of the file system that match the mask, a
\* path whose last component is a pattern.
glob(f, mask) ==
    {e[1] : e \in {x \in f : /\ Len(x[1]) = Len(mask)
                             /\ SubSeq(x[1], 1, Len(mask) - 1)
                                  = SubSeq(mask, 1, Len(mask) - 1)
                             /\ fnmatch(Last(mask), Last(x[1]))}}

Paths(f) == {e[1] : e \in f}

Exists(f, p) == p \in Paths(f)

IsDir(f, p) == <<p, DIR>> \in f

\* The entries at or below path p.
Under(f, p) == {e \in f : IsPrefix(p, e[1])}

\* utils.remove: a file, or a directory with everything below it.
remove(f, p) == f \ Under(f, p)

\* utils.create_dir: os.makedirs unless the directory is there.
create_dir(f, p) ==
    IF IsDir(f, p) THEN f
    ELSE f \cup {<<SubSeq(p, 1, i), DIR>> :
                   i \in {j \in 1..Len(p) : ~Exists(f, SubSeq(p, 1, j))}}

\* utils.remove_by_mask: remove every path the mask globs.
remove_by_mask(f, mask) == f \ {e \in f : \E p \in glob(f, mask) : IsPrefix(p, e[1])}

\* utils.copy_files_in_dir: copy every path the mask globs (directories
\* recursively) into directory dst under its own base name.
copy_files_in_dir(f, mask, dst) ==
    LET copies == {<<join_path(dst, Drop(e[1], Len(mask) - 1)), e[2]>> :
                     e \in {x \in f : \E p \in glob(f, mask) : IsPrefix(p, x[1])}}
    IN  {e \in f : e[1] \notin Paths(copies)} \cup copies

\* utils.move_files_in_dir: as the copy, and the sources are gone.
move_files_in_dir(f, mask, dst) ==
    LET moved == {x \in f : \E p \in glob(f, mask) : IsPrefix(p, x[1])}
        copies == {<<join_path(dst, Drop(e[1], Len(mask) - 1)), e[2]>> : e \in moved}
    IN  {e \in f \ moved : e[1] \notin Paths(copies)} \cup copies

\* utils.which: the path names an executable file.
which_path(f, p) == <<p, EXE>> \in f

---------------------------------------------------------------------------
(* Names of the files and directories the builder touches                  *)

N_metadata == <<"metadata", ".yaml">>
N_hook == <<"pre_build_hook">>
N_gitignore == <<".", "gitignore">>
N_build == <<".", "build">>
N_src == <<"src">>
N_checksums == <<"checksums", ".sha1">>
N_repositories == <<"repositories">>
N_ubuntu == <<"ubuntu">>
N_centos == <<"centos">>
N_debian == <<"debian">>
N_packages_gz == <<"Packages", ".gz">>
N_release == <<"Release">>
N_packages == <<"Packages">>
N_repodata == <<"repodata">>
N_repomd == <<"repomd", ".xml">>
N_rpm == <<"rpm">>
N_sources == <<"SOURCES">>
N_rpms == <<"RPMS">>
N_noarch == <<"noarch">>
N_spec == <<"plugin_rpm", ".spec">>
N_uninstall == <<"uninstall", ".sh">>
N_pre_install == <<"pre_install", ".sh">>
N_post_install == <<"post_install", ".sh">>

\* The commands a host may have on its PATH.
Commands == {"rpmbuild", "rpm", "createrepo", "dpkg-scanpackages"}

\* Plugin versions metadata.yaml may declare, as tokens.
Versions == {<<"1.0">>, <<"1.2", "-", "3">>}

\* Plugin names (the name is fixed over the runs of one plugin).
PluginNames == {<<"fuel_plugin">>, <<"fuel", "-", "plugin">>}

\* package_version tags of metadata.yaml.
PackageVersions == {"1.0.0", "2.0.0", "3.0.0"}

\* The release entries metadata.yaml may list: one repository per os family
\* the builder knows, and one of a family it does not.
Releases ==
    { [os |-> "ubuntu", repository_path |-> <<N_repositories, N_ubuntu>>],
      [os |-> "centos", repository_path |-> <<N_repositories, N_centos>>],
      [os |-> "debian", repository_path |-> <<N_repositories, N_debian>>] }

ReleaseLists == UNION {[1..n -> Releases] : n \in 0..MaxReleases}

\* Data of metadata.yaml: it changes with the declared version.
MetadataData(version) == <<"yaml">> \o version

\* The plugin's own source tree.
PluginTree(version) ==
    { <<<<N_metadata>>, MetadataData(version)>>,
      <<<<N_gitignore>>, FILE>>,
      <<<<N_repositories>>, DIR>>,
      <<<<N_repositories, N_ubuntu>>, DIR>>,
      <<<<N_repositories, N_ubuntu, <<"a", ".deb">>>>, FILE>>,
      <<<<N_repositories, N_centos>>, DIR>>,
      <<<<N_repositories, N_centos, <<"a", ".rpm">>>>, FILE>>,
      <<<<N_repositories, N_centos, <<"b", ".rpm">>>>, FILE>>,
      <<<<N_repositories, N_debian>>, DIR>>,
      <<<<N_repositories, N_debian, <<"a", ".deb">>>>, FILE>>,
      <<<<N_repositories, N_debian, <<"a", ".rpm">>>>, FILE>> }

\* pre_build_hook: absent, present but not executable, executable.
HookOptions == { {}, {<<<<N_hook>>, FILE>>}, {<<<<N_hook>>, EXE>>} }

\* What the plugin root may hold before the first run besides the sources:
\* nothing, a plain file in the place of the workspace, or the package a
\* build of an older version left.
Leftovers(plugin_name, package_version) ==
    { {},
      {<<<<N_build>>, FILE>>},
      {<<<<plugin_name \o (IF package_version = "1.0.0"
                           THEN <<"-", "0.9", ".fp">>
                           ELSE <<"-", "0.9", "-", "0.9", ".noarch", ".rpm">>)>>,
         <<"old">>>>} }

\* The lifecycle scripts a plugin root may hold, each with its own text.
Scripts ==
    { <<<<N_uninstall>>, <<"echo uninstall">>>>,
      <<<<N_pre_install>>, <<"echo pre">>>>,
      <<<<N_post_install>>, <<"echo post">>>> }

ScriptOptions == SUBSET Scripts

\* Python's None, for a key metadata.yaml does not have.
None == <<"None">>

\* The descriptive fields of metadata.yaml; licenses, authors and homepage
\* are optional (an absent list reads as the empty list).
Descriptions ==
    { [title |-> <<"Plugin">>, description |-> <<"A plugin">>,
       licenses |-> <<>>, authors |-> <<>>, homepage |-> None],
      [title |-> <<"Plugin">>, description |-> <<"A plugin">>,
       licenses |-> <<"Apache">>, authors |-> <<"Ann">>,
       homepage |-> <<"http://example.org">>],
      [title |-> <<"Plugin">>, description |-> <<"A plugin">>,
       licenses |-> <<"Apache", "GPL">>, authors |-> <<"Ann", "Bob">>,
       homepage |-> <<"http://example.org">>] }

Metadata(n, pv, rs, d) ==
    [name |-> n, version |-> <<"1.0">>, package_version |-> pv, releases |-> rs,
     title |-> d.title, description |-> d.description, licenses |-> d.licenses,
     authors |-> d.authors, homepage |-> d.homepage]

NoError == [kind |-> "none", cmds |-> <<>>]

NoData == [template |-> <<>>, data |-> [k \in {} |-> <<>>]]

---------------------------------------------------------------------------
VARIABLES
    fs,              \* the file system below the plugin root
    meta,            \* the parsed metadata.yaml (self.meta)
    builder,         \* the class make_builder instantiated: V1, V2, V3
    installed,       \* the commands check() finds resolvable on the PATH
    layout_valid,    \* whether check() finds the plugin layout valid
    pc,              \* the step of run() to execute next
    trace,           \* the steps of this run, each with its outcome
    error,           \* the exception that ended this run
    run,             \* number of invocations so far
    hook_runs,       \* executions of pre_build_hook in this run
    validator_calls, \* invocations of the structural validator in this run
    checksums,       \* content of checksums.sha1
    archive,         \* content of the tarball make_tar_gz wrote
    spec_data,       \* the template and the data plugin_rpm.spec was rendered with
    prev             \* what the previous invocation left

vars == <<fs, meta, builder, installed, layout_valid, pc, trace, error, run,
          hook_runs, validator_calls, checksums, archive, spec_data, prev>>

---------------------------------------------------------------------------
(* BaseBuildPlugin.__init__ and the variants' attributes                   *)

plugin_path == <<>>
pre_build_hook_path == join_path(plugin_path, <<N_hook>>)
build_dir == join_path(plugin_path, <<N_build>>)
build_src_dir == join_path(build_dir, <<N_src>>)
checksums_path == join_path(build_src_dir, <<N_checksums>>)

\* version_mapping.get_version_mapping_from_plugin(...)['builder']
make_builder(package_version) ==
    CASE package_version = "1.0.0" -> "V1"
      [] package_version = "2.0.0" -> "V2"
      [] package_version = "3.0.0" -> "V3"

\* utils.version_split_name_rpm: the package version and the release of a
\* version string; a version without release suffix has release 1.
version_split_name_rpm(version) ==
    IF \E i \in 1..Len(version) : version[i] = "-"
    THEN LET i == CHOOSE j \in 1..Len(version) :
                     version[j] = "-" /\ \A k \in 1..(j - 1) : version[k] /= "-"
         IN  <<SubSeq(version, 1, i - 1), Drop(version, i)>>
    ELSE <<version, <<"1">>>>

plugin_version == version_split_name_rpm(meta.version)[1]
full_version == version_split_name_rpm(meta.version)[2]
rpm_path == join_path(plugin_path, <<N_build, N_rpm>>)
rpm_src_path == join_path(rpm_path, <<N_sources>>)
\* '{0}-{1}'.format(name, plugin_version)
full_name == meta.name \o <<"-">> \o plugin_version
\* V2: rpm_src_path/'{0}.fp'.format(full_name)
tar_path == join_path(rpm_src_path, <<full_name \o <<".fp">>>>)
spec_dst == join_path(rpm_path, <<N_spec>>)
rpm_packages_mask == join_path(rpm_path, <<N_rpms, N_noarch, <<"*", ".rpm">>>>)

requires_V1 == <<"rpm", "createrepo", "dpkg-scanpackages">>
requires_V2 == <<"rpmbuild", "rpm", "createrepo", "dpkg-scanpackages">>
requires == IF builder = "V1" THEN requires_V1 ELSE requires_V2

\* '{0}-*.fp'.format(self.name) in the plugin root
result_package_mask_V1 == join_path(plugin_path, <<meta.name \o <<"-", "*", ".fp">>>>)
\* Mutant: BuildPluginV2 does not override the mask of the tarball.
result_package_mask_V2_inherited == result_package_mask_V1

\* '{0}-*.noarch.rpm'.format(self.name) in the plugin root
result_package_mask_V2 == join_path(plugin_path, <<meta.name \o <<"-", "*", ".noarch", ".rpm">>>>)
result_package_mask ==
    IF builder = "V1" THEN result_package_mask_V1 ELSE result_package_mask_V2

---------------------------------------------------------------------------
(* BaseBuildPlugin.run: the order of the steps                             *)

\* Mutant: the workspace is cleaned only once the checks have passed.
run_steps_clean_after_check == <<"run_pre_build_hook", "check", "clean", "build_repos",
                                 "add_checksums_file", "make_package">>

\* Mutant: the checksum manifest is written before the repositories are built.
run_steps_checksums_first == <<"clean", "run_pre_build_hook", "check",
                               "add_checksums_file", "build_repos", "make_package">>

\* Mutant: the check phase runs before the pre-build hook.
run_steps_check_first == <<"clean", "check", "run_pre_build_hook", "build_repos",
                           "add_checksums_file", "make_package">>

\* Mutant: the sources are staged and the repositories built before the check.
run_steps_repos_first == <<"clean", "run_pre_build_hook", "build_repos", "check",
                           "add_checksums_file", "make_package">>

run_steps == <<"clean", "run_pre_build_hook", "check", "build_repos",
               "add_checksums_file", "make_package">>
\* Mutant: structure is validated before the requirements are checked.
check_steps_reversed == <<"_check_structure", "_check_requirements">>

check_steps == <<"_check_requirements", "_check_structure">>
build_repos_steps == <<"copy_files_in_dir", "build_ubuntu_repos", "build_centos_repos">>

RECURSIVE Flatten(_)
Flatten(steps) ==
    IF steps = <<>> THEN <<>>
    ELSE (CASE Head(steps) = "check" -> check_steps
            [] Head(steps) = "build_repos" -> build_repos_steps
            [] OTHER -> <<Head(steps)>>) \o Flatten(Tail(steps))

Pipeline == Flatten(run_steps)

\* The step run() executes after position i of the pipeline.
StepAt(i) == IF i <= Len(Pipeline) THEN Pipeline[i] ELSE "done"

Position == Len(trace) + 1

Advance(step) ==
    /\ trace' = Append(trace, <<step, "ok">>)
    /\ pc' = StepAt(Position + 1)
    /\ error' = error

\* Mutant: run() swallows the exception and goes on with the next step.
Raise_swallowed(step, err) ==
    /\ trace' = Append(trace, <<step, "fail">>)
    /\ pc' = StepAt(Position + 1)
    /\ error' = err

\* An exception raised in a step: run() has no handler, it propagates.
Raise(step, err) ==
    /\ trace' = Append(trace, <<step, "fail">>)
    /\ pc' = "failed"
    /\ error' = err

CommandError(cmd) == [kind |-> "ExecutedErrorNonZeroExitCode", cmds |-> <<cmd>>]

---------------------------------------------------------------------------
(* File-system effects of the steps                                        *)

\* Writing a file replaces what was at its path.
Write(f, p, data) == {e \in f : e[1] /= p} \cup {<<p, data>>}

\* Mutant: the old workspace is not removed.
clean_keep_workspace(f) ==
    remove_by_mask(create_dir(f, build_dir), result_package_mask)

\* Mutant: stale packages are not removed.
clean_keep_packages(f) == create_dir(remove(f, build_dir), build_dir)

\* BaseBuildPlugin.clean
clean(f) ==
    remove_by_mask(create_dir(remove(f, build_dir), build_dir), result_package_mask)

\* Mutant: the copy takes every entry of the plugin root, hidden ones too.
stage_all(f) ==
    LET g == create_dir(f, build_src_dir)
        copies == {<<join_path(build_src_dir, e[1]), e[2]>> : e \in g}
    IN  {e \in g : e[1] \notin Paths(copies)} \cup copies

\* build_repos, first part: the staging of the plugin's sources.
stage(f) ==
    copy_files_in_dir(create_dir(f, build_src_dir),
                      join_path(plugin_path, <<<<"*">>>>),
                      build_src_dir)

\* Variant: the repository paths are taken in the plugin directory itself.
RECURSIVE releases_paths_in_place(_, _)
releases_paths_in_place(releases, os) ==
    IF releases = <<>> THEN <<>>
    ELSE (IF Head(releases).os = os
          THEN <<join_path(plugin_path, Head(releases).repository_path)>>
          ELSE <<>>) \o releases_paths_in_place(Tail(releases), os)

\* Variant: a release of any other os family is listed with the ubuntu ones.
RECURSIVE releases_paths_any_os(_, _)
releases_paths_any_os(releases, os) ==
    IF releases = <<>> THEN <<>>
    ELSE (IF Head(releases).os = os \/ (os = "ubuntu" /\ Head(releases).os /= "centos")
          THEN <<join_path(build_src_dir, Head(releases).repository_path)>>
          ELSE <<>>) \o releases_paths_any_os(Tail(releases), os)

\* build_repos: releases_paths.get(os, []), in the order of meta['releases'].
RECURSIVE releases_paths(_, _)
releases_paths(releases, os) ==
    IF releases = <<>> THEN <<>>
    ELSE (IF Head(releases).os = os
          THEN <<join_path(build_src_dir, Head(releases).repository_path)>>
          ELSE <<>>) \o releases_paths(Tail(releases), os)

\* exec_piped_cmds(['dpkg-scanpackages .', 'gzip -c9 > Packages.gz'], cwd=repo_path)
scan_packages(f, repo_path) ==
    Write(f, join_path(repo_path, <<N_packages_gz>>), <<"gz">>)

\* render_to_file(release_tmpl_src, repo_path/Release, {plugin_name, major_version})
render_release(f, repo_path) ==
    Write(f, join_path(repo_path, <<N_release>>),
          <<"Release">> \o meta.name \o <<"/">> \o plugin_version)

\* The calls of one round of the loop of BaseBuildPlugin.build_ubuntu_repos.
ubuntu_cmds_V1 == <<"dpkg-scanpackages">>

\* Mutant: BuildPluginV2 renders Release before it scans the packages.
ubuntu_cmds_V2_release_first == <<"render_release", "dpkg-scanpackages">>

\* The calls of one round of the loop of BuildPluginV2.build_ubuntu_repos.
ubuntu_cmds_V2 == <<"dpkg-scanpackages", "render_release">>

\* The method of the class make_builder chose (V3 inherits V2's).
ubuntu_cmds == IF builder = "V1" THEN ubuntu_cmds_V1 ELSE ubuntu_cmds_V2

\* The first n calls of one round of build_ubuntu_repos.
RECURSIVE ubuntu_round(_, _, _, _)
ubuntu_round(f, cmds, repo_path, n) ==
    IF n = 0 THEN f
    ELSE LET g == ubuntu_round(f, cmds, repo_path, n - 1)
         IN  IF cmds[n] = "dpkg-scanpackages" THEN scan_packages(g, repo_path)
             ELSE render_release(g, repo_path)

\* One round of the loop of BaseBuildPlugin.build_ubuntu_repos.
ubuntu_repo_V1(f, repo_path) ==
    ubuntu_round(f, ubuntu_cmds_V1, repo_path, Len(ubuntu_cmds_V1))

\* One round of the loop of BuildPluginV2.build_ubuntu_repos.
ubuntu_repo_V2(f, repo_path) ==
    ubuntu_round(f, ubuntu_cmds_V2, repo_path, Len(ubuntu_cmds_V2))

ubuntu_repo(f, repo_path) ==
    IF builder = "V1" THEN ubuntu_repo_V1(f, repo_path) ELSE ubuntu_repo_V2(f, repo_path)

\* utils.create_dir(repo_packages)
centos_create_dir(f, repo_path) == create_dir(f, join_path(repo_path, <<N_packages>>))

\* utils.move_files_in_dir(repo_path/*.rpm, repo_packages)
centos_move(f, repo_path) ==
    move_files_in_dir(f, join_path(repo_path, <<<<"*", ".rpm">>>>),
                      join_path(repo_path, <<N_packages>>))

\* createrepo -o repo_path repo_path
createrepo(f, repo_path) ==
    Write(create_dir(f, join_path(repo_path, <<N_repodata>>)),
          join_path(repo_path, <<N_repodata, N_repomd>>), <<"repomd">>)

\* Mutant: createrepo runs before the packages are moved.
centos_cmds_createrepo_first == <<"create_dir", "createrepo", "move_files_in_dir">>

\* The calls of one round of the loop of build_centos_repos.
centos_cmds == <<"create_dir", "move_files_in_dir", "createrepo">>

\* The first n calls of one round of build_centos_repos.
RECURSIVE centos_round(_, _, _)
centos_round(f, repo_path, n) ==
    IF n = 0 THEN f
    ELSE LET g == centos_round(f, repo_path, n - 1)
         IN  CASE centos_cmds[n] = "create_dir" -> centos_create_dir(g, repo_path)
               [] centos_cmds[n] = "move_files_in_dir" -> centos_move(g, repo_path)
               [] centos_cmds[n] = "createrepo" -> createrepo(g, repo_path)

centos_repo(f, repo_path) == centos_round(f, repo_path, Len(centos_cmds))

\* The first n rounds of build_ubuntu_repos / build_centos_repos.
RECURSIVE ubuntu_repos(_, _, _)
ubuntu_repos(f, paths, n) ==
    IF n = 0 THEN f ELSE ubuntu_repo(ubuntu_repos(f, paths, n - 1), paths[n])

RECURSIVE centos_repos(_, _, _)
centos_repos(f, paths, n) ==
    IF n = 0 THEN f ELSE centos_repo(centos_repos(f, paths, n - 1), paths[n])

\* The files (not the directories) below dir, by their path relative to it.
Content(f, dir) ==
    {<<Drop(e[1], Len(dir)), e[2]>> : e \in {x \in Under(f, dir) : x[2] /= DIR}}

\* utils.create_checksums_file(build_src_dir, checksums_path)
add_checksums_file(f) == Write(f, checksums_path, <<"sha1">>)

\* BuildPluginV1.make_package: plugin_path/'{0}-{1}.fp'.format(name, version)
tar_path_V1 == join_path(plugin_path, <<meta.name \o <<"-">> \o meta.version \o <<".fp">>>>)

make_package_V1(f) == Write(f, tar_path_V1, <<"tar">>)

\* BuildPluginV2.make_package up to the call of rpmbuild.
make_rpm_sources(f) ==
    Write(Write(create_dir(f, rpm_src_path), tar_path, <<"tar">>), spec_dst, <<"spec">>)

\* The package rpmbuild names after the rendered spec: Name-Version.noarch.rpm
rpm_file == full_name \o <<"-">> \o full_version \o <<".noarch", ".rpm">>

\* rpmbuild --define "_topdir rpm_path" -bb spec_dst
rpmbuild(f) ==
    Write(create_dir(f, join_path(rpm_path, <<N_rpms, N_noarch>>)),
          join_path(rpm_path, <<N_rpms, N_noarch, rpm_file>>), <<"rpm">>)

\* BuildPluginV2.make_package
make_package_V2(f) ==
    copy_files_in_dir(rpmbuild(make_rpm_sources(f)), rpm_packages_mask, plugin_path)

\* rpm_spec_src_path: templates/v2/... for V2, templates/v3/... for V3
rpm_spec_src_path ==
    <<"templates", IF builder = "V3" THEN "v3" ELSE "v2", "build", "plugin_rpm.spec.mako">>

\* sep.join(list)
RECURSIVE Join(_, _)
Join(list, sep) ==
    IF list = <<>> THEN <<>>
    ELSE IF Len(list) = 1 THEN <<list[1]>>
    ELSE <<list[1], sep>> \o Join(Tail(list), sep)

get_current_year == <<"2015">>

\* utils.read_if_exist: the text of the file, the empty string without it
read_if_exist(f, p) ==
    IF \E e \in f : e[1] = p /\ e[2] /= DIR
    THEN (CHOOSE e \in f : e[1] = p)[2]
    ELSE <<>>

\* BuildPluginV2._make_data_for_template
make_data_for_template_V2 ==
    [name |-> full_name,
     version |-> full_version,
     summary |-> meta.title,
     description |-> meta.description,
     license |-> Join(meta.licenses, " and "),
     homepage |-> meta.homepage,
     vendor |-> Join(meta.authors, ", "),
     year |-> get_current_year]

\* Variant: the pre-install and post-install texts change places.
make_data_for_template_V3_swapped(f) ==
    [postinstall_hook |-> read_if_exist(f, join_path(plugin_path, <<N_pre_install>>)),
     preinstall_hook |-> read_if_exist(f, join_path(plugin_path, <<N_post_install>>)),
     uninstall_hook |-> read_if_exist(f, join_path(plugin_path, <<N_uninstall>>))]
    @@ make_data_for_template_V2

\* BuildPluginV3._make_data_for_template: data.update(...) on the V2 data
make_data_for_template_V3(f) ==
    [postinstall_hook |-> read_if_exist(f, join_path(plugin_path, <<N_post_install>>)),
     preinstall_hook |-> read_if_exist(f, join_path(plugin_path, <<N_pre_install>>)),
     uninstall_hook |-> read_if_exist(f, join_path(plugin_path, <<N_uninstall>>))]
    @@ make_data_for_template_V2

make_data_for_template(f) ==
    IF builder = "V3" THEN make_data_for_template_V3(f) ELSE make_data_for_template_V2

\* render_to_file(self.spec_src, self.spec_dst, self._make_data_for_template())
render_spec(f) == [template |-> rpm_spec_src_path, data |-> make_data_for_template(f)]

\* Mutant: the check stops at the first missing command.
not_found_first(reqs, on_path) ==
    LET all == SelectSeq(reqs, LAMBDA r : r \notin on_path)
    IN  IF all = <<>> THEN <<>> ELSE <<Head(all)>>

\* _check_requirements: filter(lambda r: not utils.which(r), self.requires)
not_found(reqs, on_path) == SelectSeq(reqs, LAMBDA r : r \notin on_path)

---------------------------------------------------------------------------
(* The state after construction, and the steps                             *)

NoRun == [ok |-> FALSE,
          meta |-> [Metadata(<<>>, "", <<>>, CHOOSE d \in Descriptions : d.licenses = <<>>)
                       EXCEPT !.version = <<>>],
          checksums |-> {}, artifacts |-> {}]

\* Before the first invocation.
Idle ==
    /\ builder = "none"
    /\ installed = Commands
    /\ layout_valid = TRUE
    /\ pc = "idle"
    /\ trace = <<>>
    /\ error = NoError
    /\ run = 0
    /\ hook_runs = 0
    /\ validator_calls = 0
    /\ checksums = {}
    /\ archive = {}
    /\ spec_data = NoData
    /\ prev = NoRun

\* Plugins of every variant with every release list, without lifecycle
\* scripts.
Init ==
    /\ \E n \in PluginNames, pv \in PackageVersions, rs \in ReleaseLists :
          meta = Metadata(n, pv, rs, CHOOSE d \in Descriptions : Len(d.licenses) = 1)
    /\ \E hook \in HookOptions, left \in Leftovers(meta.name, meta.package_version) :
          fs = PluginTree(<<"1.0">>) \cup hook \cup left
    /\ Idle

\* Plugins with every subset of the lifecycle scripts and every description,
\* with one ubuntu and one centos release.
InitScripts ==
    /\ \E pv \in PackageVersions, d \in Descriptions :
          meta = Metadata(<<"fuel_plugin">>, pv,
                          <<[os |-> "ubuntu", repository_path |-> <<N_repositories, N_ubuntu>>],
                            [os |-> "centos", repository_path |-> <<N_repositories, N_centos>>]>>,
                          d)
    /\ \E hook \in HookOptions, scripts \in ScriptOptions :
          fs = PluginTree(<<"1.0">>) \cup hook \cup scripts
    /\ Idle

\* One invocation of the builder: the operator may have edited the version
\* in metadata.yaml and changed the host; make_builder picks the class and
\* __init__ parses the metadata; run() starts.
Start ==
    /\ pc \in {"idle", "done", "failed"}
    /\ run < MaxRuns
    /\ \E v \in Versions :
          /\ meta' = [meta EXCEPT !.version = v]
          /\ fs' = Write(fs, <<N_metadata>>, MetadataData(v))
    /\ installed' = Commands
    /\ layout_valid' = TRUE
    /\ builder' = make_builder(meta.package_version)
    /\ prev' = IF run = 0 THEN NoRun
               ELSE [ok |-> pc = "done", meta |-> meta, checksums |-> checksums,
                     artifacts |-> glob(fs, result_package_mask)]
    /\ run' = run + 1
    /\ pc' = StepAt(1)
    /\ trace' = <<>>
    /\ error' = NoError
    /\ hook_runs' = 0
    /\ validator_calls' = 0
    /\ spec_data' = NoData
    /\ UNCHANGED <<checksums, archive>>

Clean ==
    /\ pc = "clean"
    /\ fs' = clean(fs)
    /\ checksums' = {}
    /\ archive' = {}
    /\ Advance("clean")
    /\ UNCHANGED <<meta, builder, installed, layout_valid, run, hook_runs,
                   validator_calls, spec_data, prev>>

\* Mutant: the hook is executed whenever a file of that name exists.
RunPreBuildHook_unguarded ==
    /\ pc = "run_pre_build_hook"
    /\ IF Exists(fs, pre_build_hook_path)
       THEN /\ hook_runs' = hook_runs + 1
            /\ \/ Advance("run_pre_build_hook")
               \/ Raise("run_pre_build_hook", CommandError("pre_build_hook"))
       ELSE /\ hook_runs' = hook_runs
            /\ Advance("run_pre_build_hook")
    /\ UNCHANGED <<fs, meta, builder, installed, layout_valid, run,
                   validator_calls, checksums, archive, spec_data, prev>>

\* run_pre_build_hook: if utils.which(hook): utils.exec_cmd(hook)
RunPreBuildHook ==
    /\ pc = "run_pre_build_hook"
    /\ IF which_path(fs, pre_build_hook_path)
       THEN /\ hook_runs' = hook_runs + 1
            /\ \/ Advance("run_pre_build_hook")
               \/ Raise("run_pre_build_hook", CommandError("pre_build_hook"))
       ELSE /\ hook_runs' = hook_runs
            /\ Advance("run_pre_build_hook")
    /\ UNCHANGED <<fs, meta, builder, installed, layout_valid, run,
                   validator_calls, checksums, archive, spec_data, prev>>

\* _check_requirements, on the host and the plugin as check() finds them.
\* With a command missing the validator never reads the layout; the plugin
\* is then taken with an invalid layout, the case in which the order of the
\* two checks shows.
CheckRequirements ==
    /\ pc = "_check_requirements"
    /\ installed' \in SUBSET Commands
    /\ layout_valid' \in (IF not_found(requires, installed') = <<>> THEN BOOLEAN ELSE {FALSE})
    /\ IF not_found(requires, installed') /= <<>>
       THEN Raise("_check_requirements",
                  [kind |-> "FuelCannotFindCommandError",
                   cmds |-> not_found(requires, installed')])
       ELSE Advance("_check_requirements")
    /\ UNCHANGED <<fs, meta, builder, run, hook_runs, validator_calls,
                   checksums, archive, spec_data, prev>>

\* _check_structure: ValidatorManager(plugin_path).get_validator().validate()
CheckStructure ==
    /\ pc = "_check_structure"
    /\ validator_calls' = validator_calls + 1
    /\ IF layout_valid
       THEN Advance("_check_structure")
       ELSE Raise("_check_structure", [kind |-> "ValidationError", cmds |-> <<>>])
    /\ UNCHANGED <<fs, meta, builder, installed, layout_valid, run, hook_runs,
                   checksums, archive, spec_data, prev>>

\* build_repos, lines 82-92: create .build/src, copy the sources, group the
\* releases by os. The copy may fail before anything is copied.
StageSources ==
    /\ pc = "copy_files_in_dir"
    /\ \/ fs' = stage(fs) /\ Advance("copy_files_in_dir")
       \/ /\ fs' = create_dir(fs, build_src_dir)
          /\ Raise("copy_files_in_dir", CommandError("copy"))
    /\ UNCHANGED <<meta, builder, installed, layout_valid, run, hook_runs,
                   validator_calls, checksums, archive, spec_data, prev>>

\* build_ubuntu_repos: every path in turn; any call may fail at any path,
\* after the calls before it have had their effect.
BuildUbuntuRepos ==
    /\ pc = "build_ubuntu_repos"
    /\ LET paths == releases_paths(meta.releases, "ubuntu")
       IN  \/ /\ fs' = ubuntu_repos(fs, paths, Len(paths))
              /\ Advance("build_ubuntu_repos")
           \/ \E k \in 0..(Len(paths) - 1), j \in 0..(Len(ubuntu_cmds) - 1) :
                 /\ fs' = ubuntu_round(ubuntu_repos(fs, paths, k), ubuntu_cmds,
                                       paths[k + 1], j)
                 /\ Raise("build_ubuntu_repos", CommandError(ubuntu_cmds[j + 1]))
    /\ UNCHANGED <<meta, builder, installed, layout_valid, run, hook_runs,
                   validator_calls, checksums, archive, spec_data, prev>>

\* build_centos_repos: every path in turn; any call may fail at any path,
\* after the calls before it have had their effect.
BuildCentosRepos ==
    /\ pc = "build_centos_repos"
    /\ LET paths == releases_paths(meta.releases, "centos")
       IN  \/ /\ fs' = centos_repos(fs, paths, Len(paths))
              /\ Advance("build_centos_repos")
           \/ \E k \in 0..(Len(paths) - 1), j \in 0..(Len(centos_cmds) - 1) :
                 /\ fs' = centos_round(centos_repos(fs, paths, k), paths[k + 1], j)
                 /\ Raise("build_centos_repos", CommandError(centos_cmds[j + 1]))
    /\ UNCHANGED <<meta, builder, installed, layout_valid, run, hook_runs,
                   validator_calls, checksums, archive, spec_data, prev>>

AddChecksumsFile ==
    /\ pc = "add_checksums_file"
    /\ \/ /\ checksums' = Content(fs, build_src_dir)
          /\ fs' = add_checksums_file(fs)
          /\ Advance("add_checksums_file")
       \/ /\ UNCHANGED <<fs, checksums>>
          /\ Raise("add_checksums_file", CommandError("sha1"))
    /\ UNCHANGED <<meta, builder, installed, layout_valid, run, hook_runs,
                   validator_calls, archive, spec_data, prev>>

\* make_package of the class make_builder chose.
MakePackage ==
    /\ pc = "make_package"
    /\ \/ /\ builder = "V1"
          /\ fs' = make_package_V1(fs)
          /\ archive' = Content(fs, build_src_dir)
          /\ UNCHANGED spec_data
          /\ Advance("make_package")
       \/ /\ builder \in {"V2", "V3"}
          /\ fs' = make_package_V2(fs)
          /\ archive' = Content(fs, build_src_dir)
          /\ spec_data' = render_spec(fs)
          /\ Advance("make_package")
       \/ /\ builder = "V1"
          /\ UNCHANGED <<fs, archive, spec_data>>
          /\ Raise("make_package", CommandError("tar"))
       \/ /\ builder \in {"V2", "V3"}
          /\ fs' = make_rpm_sources(fs)
          /\ archive' = Content(fs, build_src_dir)
          /\ spec_data' = render_spec(fs)
          /\ Raise("make_package", CommandError("rpmbuild"))
    /\ UNCHANGED <<meta, builder, installed, layout_valid, run, hook_runs,
                   validator_calls, checksums, prev>>

Next ==
    \/ Start
    \/ Clean
    \/ RunPreBuildHook
    \/ CheckRequirements
    \/ CheckStructure
    \/ StageSources
    \/ BuildUbuntuRepos
    \/ BuildCentosRepos
    \/ AddChecksumsFile
    \/ MakePackage

Spec == Init /\ [][Next]_vars

SpecScripts == InitScripts /\ [][Next]_vars

---------------------------------------------------------------------------
(* Properties                                                              *)

\* The order of section 4.1, with the check phase and build_repos unfolded.
ExpectedOrder ==
    <<"clean", "run_pre_build_hook", "_check_requirements", "_check_structure",
      "copy_files_in_dir", "build_ubuntu_repos", "build_centos_repos",
      "add_checksums_file", "make_package">>

Completed(step) == \E i \in 1..Len(trace) : trace[i] = <<step, "ok">>

Attempted(step) == \E i \in 1..Len(trace) : trace[i][1] = step

FailedAt(step) == trace /= <<>> /\ Last(trace) = <<step, "fail">>

\* The plugin's sources have a copy in .build/src.
Staged == <<join_path(build_src_dir, <<N_metadata>>), MetadataData(meta.version)>> \in fs

\* The commands of the variant's requirement list that are not on the PATH.
Missing == {r \in Range(requires) : r \notin installed}

\* The packages in the plugin root that match the variant's output mask.
Packages == glob(fs, result_package_mask)

\* C1: in every run, of every variant, the steps start in the order clean,
\* pre-build hook, requirement check, structural validation, staging and
\* repository building, checksum manifest, package assembly; each at most
\* once, and only after every earlier step has succeeded.
C1_StepOrder ==
    /\ Len(trace) <= Len(ExpectedOrder)
    /\ \A i \in 1..Len(trace) : trace[i][1] = ExpectedOrder[i]
    /\ \A i \in 1..(Len(trace) - 1) : trace[i][2] = "ok"
    /\ pc \notin {"idle", "done", "failed"} =>
          /\ Len(trace) < Len(ExpectedOrder)
          /\ pc = ExpectedOrder[Len(trace) + 1]
    /\ pc = "done" => Len(trace) = Len(ExpectedOrder)

C1_Witness ==
    /\ pc = "done"
    /\ builder = "V3"
    /\ [i \in 1..Len(trace) |-> trace[i][1]] = ExpectedOrder
    /\ Len(meta.releases) = 2

\* What the steps that succeeded in this run have left is still there.
EffectsKept ==
    /\ Completed("clean") => IsDir(fs, build_dir)
    /\ Completed("copy_files_in_dir") => Staged
    /\ Completed("build_ubuntu_repos") =>
          \A q \in Range(releases_paths(meta.releases, "ubuntu")) :
             Exists(fs, join_path(q, <<N_packages_gz>>))
    /\ Completed("build_centos_repos") =>
          \A q \in Range(releases_paths(meta.releases, "centos")) :
             Exists(fs, join_path(q, <<N_repodata, N_repomd>>))
    /\ Completed("add_checksums_file") => Exists(fs, checksums_path)

\* C2: a step that fails ends the run in the state Failed: it is the last
\* step of the run, it carries the step's error, what the earlier steps did
\* is kept, and from Failed nothing happens but a new invocation.
C2_FailureIsTerminal ==
    /\ [](/\ \A i \in 1..Len(trace) :
               trace[i][2] = "fail" => (i = Len(trace) /\ pc = "failed")
          /\ pc = "failed" =>
               /\ trace /= <<>> /\ Last(trace)[2] = "fail"
               /\ error.kind /= "none"
               /\ EffectsKept)
    /\ [][pc = "failed" => (run' = run + 1 /\ trace' = <<>> /\ pc' = "clean")]_vars

C2_Witness ==
    /\ FailedAt("build_centos_repos")
    /\ Staged
    /\ releases_paths(meta.releases, "ubuntu") /= <<>>
    /\ IsDir(fs, join_path(build_src_dir, <<N_repositories, N_centos, N_packages>>))

\* The state of section 4.4, read off the steps that have succeeded.
Phase ==
    IF pc = "failed" THEN "Failed"
    ELSE IF Completed("make_package") THEN "Packaged"
    ELSE IF Completed("add_checksums_file") THEN "ChecksumWritten"
    ELSE IF Completed("build_centos_repos") THEN "RepoBuilt"
    ELSE IF Completed("copy_files_in_dir") /\ Completed("_check_structure") THEN "Staged"
    ELSE IF Completed("_check_structure") THEN "Checked"
    ELSE IF Completed("copy_files_in_dir") THEN "Staged"
    ELSE IF Completed("clean") THEN "Clean"
    ELSE "New"

\* C3 as stated: the sources are staged before the check phase is performed,
\* so whenever a check has been attempted the staged copy is there.
C3_StagedBeforeChecked ==
    (Attempted("_check_requirements") \/ Attempted("_check_structure")) => Staged

\* C3, amended: a build passes through Clean, Checked, Staged, RepoBuilt,
\* ChecksumWritten, Packaged in that order, without cycle or re-entry, or
\* ends in Failed; the sources are staged only after the requirement check
\* and the structural validation have both passed.
C3_CheckedBeforeStaged ==
    /\ [](/\ (Completed("clean") /\ Exists(fs, build_src_dir)) =>
               (Completed("_check_requirements") /\ Completed("_check_structure"))
          /\ Phase \in {"Staged", "RepoBuilt", "ChecksumWritten", "Packaged"} => Staged)
    /\ [][Phase' /= Phase =>
            \/ Phase' \in {"Failed", "New"}
            \/ <<Phase, Phase'>> \in
                 { <<"New", "Clean">>, <<"Clean", "Checked">>, <<"Checked", "Staged">>,
                   <<"Staged", "RepoBuilt">>, <<"RepoBuilt", "ChecksumWritten">>,
                   <<"ChecksumWritten", "Packaged">> }]_vars

C3_Witness ==
    /\ Phase = "Staged"
    /\ validator_calls = 1
    /\ Staged
    /\ run = 2

\* C4: the requirement check fails exactly when some required command is
\* missing, and then with one error that names every missing command once
\* and no command that is present.
C4_MissingCommandsNamed ==
    Attempted("_check_requirements") =>
        /\ FailedAt("_check_requirements") <=> Missing /= {}
        /\ FailedAt("_check_requirements") =>
              /\ error.kind = "FuelCannotFindCommandError"
              /\ Range(error.cmds) = Missing
              /\ Len(error.cmds) = Cardinality(Missing)

C4_Witness ==
    /\ FailedAt("_check_requirements")
    /\ builder = "V2"
    /\ Missing = {"rpmbuild", "createrepo"}
    /\ error.cmds = <<"rpmbuild", "createrepo">>

\* C5: the requirement check runs before the structural validation, and
\* when a required command is missing the error is the missing-requirements
\* error and the validator is not invoked, whatever the plugin's layout.
C5_RequirementsPreempt ==
    /\ validator_calls > 0 => (Completed("_check_requirements") /\ Missing = {})
    /\ (Attempted("_check_requirements") /\ Missing /= {}) =>
          /\ pc = "failed"
          /\ error.kind = "FuelCannotFindCommandError"
          /\ validator_calls = 0
    /\ validator_calls <= 1

C5_Witness ==
    /\ FailedAt("_check_requirements")
    /\ ~layout_valid
    /\ validator_calls = 0
    /\ error.kind = "FuelCannotFindCommandError"

JustDone(step) == trace /= <<>> /\ Last(trace) = <<step, "ok">>

\* C6: when clean() has returned, whatever the earlier runs left behind,
\* the workspace .build exists and is empty and no file matching the
\* variant's output mask is in the plugin root.
C6_CleanWorkspace ==
    JustDone("clean") =>
        /\ IsDir(fs, build_dir)
        /\ Under(fs, build_dir) = {<<build_dir, DIR>>}
        /\ Packages = {}

C6_Witness ==
    /\ JustDone("clean")
    /\ run = 2
    /\ prev.ok
    /\ prev.artifacts /= {}
    /\ prev.checksums /= {}

\* C7: the pre-build hook is executed exactly when an executable
\* pre_build_hook is in the plugin root, once, after clean and before the
\* check phase; when it fails the build ends with the hook's error and no
\* later step has done anything; without the executable the step does
\* nothing and the pipeline goes on.
C7_PreBuildHook ==
    /\ hook_runs <= 1
    /\ ~Attempted("run_pre_build_hook") => hook_runs = 0
    /\ Attempted("run_pre_build_hook") =>
          /\ hook_runs = 1 <=> which_path(fs, pre_build_hook_path)
          /\ trace[1] = <<"clean", "ok">>
          /\ trace[2][1] = "run_pre_build_hook"
          /\ ~which_path(fs, pre_build_hook_path) => trace[2][2] = "ok"
          /\ trace[2][2] = "ok" => pc /= "failed" \/ Len(trace) > 2
    /\ FailedAt("run_pre_build_hook") =>
          /\ pc = "failed"
          /\ error = CommandError("pre_build_hook")
          /\ Len(trace) = 2
          /\ validator_calls = 0
          /\ installed = Commands /\ layout_valid
          /\ Under(fs, build_dir) = {<<build_dir, DIR>>}
          /\ checksums = {} /\ archive = {}
          /\ Packages = {}
    /\ (validator_calls > 0 \/ Attempted("_check_requirements")) =>
          Completed("run_pre_build_hook")

C7_Witness ==
    /\ FailedAt("run_pre_build_hook")
    /\ hook_runs = 1
    /\ run = 2
    /\ prev.ok

\* The packages in the plugin root: tarballs and rpm files.
RootPackages ==
    {e[1] : e \in {x \in fs : Len(x[1]) = Len(plugin_path) + 1
                              /\ x[2] \in {<<"tar">>, <<"rpm">>}}}

\* C8: every file make_package leaves in the plugin root, the tarball of V1
\* and each rpm copied from RPMS/noarch of V2 and V3, matches the
\* result_package_mask of the variant make_builder chose.
C8_PackagesMatchMask ==
    pc = "done" =>
        /\ RootPackages /= {}
        /\ RootPackages \subseteq Packages
        /\ builder = "V1" => tar_path_V1 \in RootPackages
        /\ builder \in {"V2", "V3"} => join_path(plugin_path, <<rpm_file>>) \in RootPackages

C8_Witness ==
    /\ pc = "done"
    /\ builder = "V2"
    /\ meta.version = <<"1.2", "-", "3">>
    /\ join_path(plugin_path, <<rpm_file>>) \in Packages

\* C9: two successive successful runs on an unchanged plugin write the same
\* checksum manifest and leave packages of the same names; the packages of
\* the first run are neither staged nor listed in the manifest of the
\* second.
C9_Idempotent ==
    (pc = "done" /\ run >= 2 /\ prev.ok /\ prev.meta = meta) =>
        /\ checksums = prev.checksums
        /\ Packages = prev.artifacts
        /\ \A a \in prev.artifacts :
              /\ ~Exists(fs, join_path(build_src_dir, a))
              /\ \A c \in checksums : c[1] /= a

C9_Witness ==
    /\ pc = "done"
    /\ run = 2
    /\ prev.ok
    /\ prev.meta = meta
    /\ prev.artifacts /= {}
    /\ checksums /= {}
    /\ Len(meta.releases) = 2

\* The entry's first path component, its name in the plugin root.
RootName(e) == e[1][1]

InWorkspace(e) == RootName(e) = N_build

MatchesMask(e) == fnmatch(Last(result_package_mask), RootName(e))

Hidden(e) == RootName(e)[1] = "."

StagedCopy(e) == <<join_path(build_src_dir, e[1]), e[2]>> \in fs

\* C10 as stated: after staging, every entry of the plugin root but the
\* .build workspace and the files matching the output mask has a copy in
\* .build/src, and neither .build nor a package of an earlier build has.
C10_EverythingStaged ==
    JustDone("copy_files_in_dir") =>
        /\ \A e \in fs : (~InWorkspace(e) /\ ~MatchesMask(e)) => StagedCopy(e)
        /\ ~Exists(fs, join_path(build_src_dir, <<N_build>>))
        /\ \A a \in prev.artifacts : ~Exists(fs, join_path(build_src_dir, a))

\* C10, amended: after staging, every entry of the plugin root whose name
\* does not start with a dot (files, and directories with all they hold),
\* other than files matching the output mask, has a copy in .build/src; no
\* entry whose name starts with a dot is staged, so the .build workspace is
\* not, and no package of an earlier build is.
C10_VisibleEntriesStaged ==
    JustDone("copy_files_in_dir") =>
        /\ \A e \in fs : (~Hidden(e) /\ ~MatchesMask(e)) => StagedCopy(e)
        /\ \A e \in fs : Hidden(e) => ~Exists(fs, join_path(build_src_dir, <<RootName(e)>>))
        /\ \A a \in prev.artifacts : ~Exists(fs, join_path(build_src_dir, a))

C10_Witness ==
    /\ JustDone("copy_files_in_dir")
    /\ run = 2
    /\ prev.artifacts /= {}
    /\ StagedCopy(<<<<N_repositories, N_centos, <<"a", ".rpm">>>>, FILE>>)
    /\ Exists(fs, <<N_gitignore>>)

\* The package this run's make_package puts into the plugin root.
BuiltPackage ==
    IF builder = "V1" THEN tar_path_V1 ELSE join_path(plugin_path, <<rpm_file>>)

\* C11: whatever runs of the same variant came before, failed or not and
\* with whatever version, a run that succeeds leaves exactly one file
\* matching the variant's output mask in the plugin root: the package it
\* built itself.
C11_OnePackage ==
    pc = "done" =>
        /\ Packages = {BuiltPackage}
        /\ Cardinality(Packages) = 1
        /\ RootPackages = Packages

C11_Witness ==
    /\ pc = "done"
    /\ run = 2
    /\ prev.ok
    /\ prev.artifacts /= {}
    /\ prev.meta.version /= meta.version
    /\ builder = "V3"

\* The staged repository directories of the releases of one os family.
StagedRepos(os) == Range(releases_paths(meta.releases, os))

\* C12: when build_repos has succeeded, the staged directory of every
\* ubuntu release holds Packages.gz; under V2 and V3 it also holds Release,
\* rendered with the plugin name and the major version of the version
\* split, and under V1 no Release is rendered anywhere. A directory never
\* holds Release without Packages.gz: Packages.gz is produced first.
C12_UbuntuRepos ==
    /\ Completed("build_centos_repos") =>
          /\ \A q \in StagedRepos("ubuntu") :
                /\ <<join_path(q, <<N_packages_gz>>), <<"gz">>>> \in fs
                /\ builder \in {"V2", "V3"} =>
                      <<join_path(q, <<N_release>>),
                        <<"Release">> \o meta.name \o <<"/">> \o plugin_version>> \in fs
          /\ builder = "V1" => \A e \in fs : Last(e[1]) /= N_release
    /\ Attempted("build_ubuntu_repos") =>
          \A e \in fs :
             Last(e[1]) = N_release =>
                Exists(fs, join_path(SubSeq(e[1], 1, Len(e[1]) - 1), <<N_packages_gz>>))

C12_Witness ==
    /\ Completed("build_centos_repos")
    /\ builder = "V2"
    /\ meta.version = <<"1.2", "-", "3">>
    /\ <<join_path(build_src_dir, <<N_repositories, N_ubuntu, N_release>>),
         <<"Release">> \o meta.name \o <<"/", "1.2">>>> \in fs
    /\ Exists(fs, join_path(build_src_dir, <<N_repositories, N_ubuntu, N_packages_gz>>))

\* The plugin root without the workspace, as the run found it.
SourceTree == {e \in fs : RootName(e) /= N_build} \cup {<<build_dir, DIR>>}

\* The names of the .rpm files directly in the plugin's own copy of the
\* staged repository directory q.
OriginalRpms(q) ==
    {Last(p) : p \in glob(fs, join_path(Drop(q, Len(build_src_dir)), <<<<"*", ".rpm">>>>))}

RpmsDirectlyIn(f, q) == glob(f, join_path(q, <<<<"*", ".rpm">>>>))

OsFamilies == {meta.releases[i].os : i \in 1..Len(meta.releases)}

Parent(p) == SubSeq(p, 1, Len(p) - 1)

\* The directories of the workspace in which a repository index was built.
IndexedDirs ==
    {Parent(e[1]) : e \in {x \in fs : InWorkspace(x) /\ Last(x[1]) \in {N_packages_gz, N_release}}}
    \cup {Parent(Parent(e[1])) : e \in {x \in fs : InWorkspace(x) /\ Last(x[1]) = N_repomd}}
    \cup {Parent(e[1]) : e \in {x \in fs : InWorkspace(x) /\ Last(x[1]) = N_packages}}

\* C14: an os family with no release in the metadata is no error and gets
\* no index: the ubuntu step can fail only when there is an ubuntu release,
\* the centos step only when there is a centos release, so with neither
\* family listed build_repos succeeds once the sources are staged; and an
\* index is built only in the directory of an ubuntu or a centos release,
\* never in that of a release of another os family.
C14_AbsentFamilySkipped ==
    /\ FailedAt("build_ubuntu_repos") => "ubuntu" \in OsFamilies
    /\ FailedAt("build_centos_repos") => "centos" \in OsFamilies
    /\ Completed("build_ubuntu_repos") /\ ~("centos" \in OsFamilies)
          /\ pc \notin {"build_centos_repos"} => Completed("build_centos_repos")
    /\ Attempted("build_ubuntu_repos") =>
          /\ IndexedDirs \subseteq StagedRepos("ubuntu") \cup StagedRepos("centos")
          /\ ~("ubuntu" \in OsFamilies) =>
                \A e \in fs : InWorkspace(e) => Last(e[1]) \notin {N_packages_gz, N_release}
          /\ ~("centos" \in OsFamilies) =>
                \A e \in fs :
                   InWorkspace(e) => Last(e[1]) \notin {N_packages, N_repomd, N_repodata}
          /\ \A i \in 1..Len(meta.releases) :
                meta.releases[i].os \notin {"ubuntu", "centos"} =>
                   join_path(build_src_dir, meta.releases[i].repository_path) \notin IndexedDirs

C14_Witness ==
    /\ pc = "done"
    /\ meta.releases /= <<>>
    /\ OsFamilies = {"debian"}
    /\ IsDir(fs, join_path(build_src_dir, <<N_repositories, N_debian>>))
    /\ IndexedDirs = {}

\* The text of a lifecycle script at the plugin root, the empty text when
\* the plugin has no such script.
ScriptText(n) ==
    IF \E e \in Scripts : e[1] = <<n>> /\ e \in fs
    THEN (CHOOSE e \in Scripts : e[1] = <<n>>)[2]
    ELSE <<>>

HookKeys == {"preinstall_hook", "postinstall_hook", "uninstall_hook"}

Outside(f) == {e \in f : e[1] /= <<>> /\ e[1][1] /= N_build}

BuildSteps ==
    {"copy_files_in_dir", "build_ubuntu_repos", "build_centos_repos",
     "add_checksums_file", "make_package"}

\* A build step keeps what is outside the workspace and adds at most the
\* built package.
KeepsSourceTree ==
    pc \in BuildSteps =>
        /\ Outside(fs) \subseteq Outside(fs')
        /\ \A e \in Outside(fs') \ Outside(fs) :
              /\ pc = "make_package"
              /\ pc' = "done"
              /\ e[1] = BuiltPackage

\* C16: staging, repository building, checksum writing and package
\* assembly leave every entry outside .build as it was, whether they
\* succeed or fail, and add nothing there but the package make_package
\* puts in the plugin root; no index file, Packages directory or
\* repository metadata is ever outside the workspace, and the repository
\* directories of the plugin stay as the plugin has them.
C16_SourceTreeUntouched ==
    /\ [](/\ \A e \in Outside(fs) :
                Last(e[1]) \notin {N_packages_gz, N_release, N_packages, N_repodata,
                                   N_repomd, N_checksums}
          /\ {e \in fs : RootName(e) = N_repositories}
                = {e \in PluginTree(<<"1.0">>) : e[1][1] = N_repositories})
    /\ [][KeepsSourceTree]_vars

C16_Witness ==
    /\ pc = "done"
    /\ StagedRepos("ubuntu") /= {}
    /\ StagedRepos("centos") /= {}
    /\ Exists(fs, join_path(build_src_dir, <<N_repositories, N_ubuntu, N_packages_gz>>))
    /\ Exists(fs, join_path(build_src_dir,
                            <<N_repositories, N_centos, N_packages, <<"a", ".rpm">>>>))
    /\ <<<<N_repositories, N_centos, <<"a", ".rpm">>>>, FILE>> \in fs
    /\ ~Exists(fs, <<N_repositories, N_ubuntu, N_packages_gz>>)
    /\ BuiltPackage \in Paths(fs)

StepsBeforeAssembly ==
    {"run_pre_build_hook", "_check_requirements", "_check_structure",
     "copy_files_in_dir", "build_ubuntu_repos", "build_centos_repos",
     "add_checksums_file"}

\* C17: when a run has failed at a step before make_package, no entry of
\* the plugin root matches the output mask of the variant: what an earlier
\* build left was removed by clean and nothing new was written.
C17_NoPackageAfterFailure ==
    (pc = "failed" /\ \E s \in StepsBeforeAssembly : FailedAt(s)) =>
        /\ Completed("clean")
        /\ Packages = {}

C17_Witness ==
    /\ pc = "failed"
    /\ FailedAt("build_centos_repos")
    /\ run = 2
    /\ prev.ok
    /\ prev.artifacts /= {}
    /\ prev.meta = meta

\* The path of a staged entry as the manifest and the archive name it.
InSources(p) == Drop(p, Len(build_src_dir))

Listed(p) == \E e \in checksums : e[1] = InSources(p)

\* C18: the manifest is .build/src/checksums.sha1; it is written after
\* both repository steps of the run and before make_package; once written
\* it lists Packages.gz (and Release, for V2 and V3) of every ubuntu
\* repository and the metadata and moved packages of every centos
\* repository; and the archive of a successful run contains the manifest.
C18_ManifestAfterIndexes ==
    /\ checksums_path = <<N_build, N_src, N_checksums>>
    /\ IsPrefix(build_src_dir, checksums_path)
    /\ (Completed("clean") /\ Exists(fs, checksums_path)) =>
          /\ Completed("build_ubuntu_repos")
          /\ Completed("build_centos_repos")
    /\ Attempted("make_package") => Completed("add_checksums_file")
    /\ Completed("add_checksums_file") =>
          /\ <<checksums_path, <<"sha1">>>> \in fs
          /\ \A q \in StagedRepos("ubuntu") :
                /\ Listed(join_path(q, <<N_packages_gz>>))
                /\ builder \in {"V2", "V3"} => Listed(join_path(q, <<N_release>>))
          /\ \A q \in StagedRepos("centos") :
                /\ Listed(join_path(q, <<N_repodata, N_repomd>>))
                /\ Listed(join_path(q, <<N_packages, <<"a", ".rpm">>>>))
    /\ pc = "done" =>
          /\ <<<<N_checksums>>, <<"sha1">>>> \in archive
          /\ \A e \in checksums : e \in archive

C18_Witness ==
    /\ pc = "done"
    /\ builder = "V2"
    /\ StagedRepos("ubuntu") /= {}
    /\ StagedRepos("centos") /= {}
    /\ \E e \in checksums : Last(e[1]) = N_release
    /\ \E e \in checksums : Last(e[1]) = N_repomd
    /\ \E e \in archive : e[1] = <<N_checksums>>

=============================================================================
